---- MODULE Spec2Model ----
(***************************************************************************)
(* A model of create_grad_certificates.py, the GIMP Python-Fu plug-in that *)
(* renders one certificate per team and one per player of a season roster. *)
(*                                                                         *)
(* The plug-in is one sequential procedure, save_grad_certificates.  The   *)
(* model follows it statement by statement: pc names the source line of    *)
(* the statement that runs next ("L58" is line 58), and every action is    *)
(* one statement (or one block of adjacent calls of the same kind) of the  *)
(* source.  The host image editor is modelled by the state its calls read  *)
(* and write: the layers of the template, which of them are visible, the   *)
(* text of the text layers, their horizontal offsets, the duplicate images *)
(* that exist, and the files written.                                      *)
(*                                                                         *)
(* Strings that the code formats or filters (team and player names, the    *)
(* text of the text layers, file names) are sequences of one-character     *)
(* strings.  Layer names and mentor names are only compared, and are       *)
(* ordinary strings.                                                       *)
(*                                                                         *)
(* pdb.gimp_image_get_layer_by_name answers None for a name the image has  *)
(* no layer of (line 183 relies on it); it does not raise.  A pdb call that *)
(* is handed None as its layer raises RuntimeError, reading None.width     *)
(* raises AttributeError, and nothing in the plug-in catches either.       *)
(***************************************************************************)
EXTENDS Integers, Sequences, FiniteSets, TLC

VARIABLES
    teams,          \* the roster, get_teams' result (line 28)
    restrictions,   \* parameter restrictions (line 6)
    do_export,      \* parameter do_export (line 6)
    unwritable,     \* the output folders file_png_save cannot write to
    template,       \* the names of the layers the image has
    pc,             \* the statement that runs next, "done" or "crashed"
    ti,             \* position of the loop of line 44 in teams
    pi,             \* position of the loop of line 85 in t.players
    visible,        \* layer -> whether it is visible
    text,           \* text layer -> its text
    xoff,           \* text layer -> its horizontal offset
    dirty,          \* the text layers whose text was set after they were last centered
    missing_signs,  \* the module-level list of line 150
    dups,           \* the duplicate images that exist
    files,          \* the files written, as <<folder, name>>
    exports,        \* one record per call of export, in order
    messages,       \* the gimp.message calls, in order
    calls,          \* the host calls made, as <<team index, call, layer or mentor>>
    error           \* the exception that ended the run, or "none"

vars == <<teams, restrictions, do_export, unwritable, template, pc, ti, pi,
          visible, text, xoff, dirty, missing_signs, dups, files, exports,
          messages, calls, error>>

inputs == <<teams, restrictions, do_export, unwritable, template>>

----------------------------------------------------------------------------
(* Bounds of the model.                                                    *)

MaxTeams == 2

MaxPlayers == 3

----------------------------------------------------------------------------
(* Strings.                                                                *)

None == <<"None">>

Str_Coach == <<"C", "o", "a", "c", "h">>

Str_Coaches == <<"C", "o", "a", "c", "h", "e", "s">>

Str_Manager == <<"T", "e", "a", "m", " ", "M", "a", "n", "a", "g", "e", "r">>

Str_Managers == <<"T", "e", "a", "m", " ", "M", "a", "n", "a", "g", "e", "r", "s">>

Str_AwardTeam == <<"A", "w", "a", "r", "d", "e", "d", " ", "t", "o", " ",
                   "t", "h", "e", " ", "t", "e", "a", "m">>

Str_AwardPlayer == <<"A", "w", "a", "r", "d", "e", "d", " ", "t", "o">>

\* The characters line 201 removes from a file name.  The double quote and
\* the backquote cannot be written in a string of this language: "dquote"
\* and "bquote" stand for them.
SpecialCharacters ==
    {"/", "\\", "!", "?", "@", "#", "$", ".", ":", ",", ";", "<", ">", "dquote",
     "'", "bquote", "*", "+", "~", "{", "(", "[", "]", ")", "}"}

\* name.translate(None, '...') of line 201.
Sanitize(name) == SelectSeq(name, LAMBDA c : c \notin SpecialCharacters)

----------------------------------------------------------------------------
(* The template image.                                                     *)

\* The layers lines 31-37 look up.
MainLayers ==
    {"main_name", "main_team", "main_mates", "text_team", "text_mates",
     "main_award", "text_roster"}

\* The layers lines 165-167 look up.
SignatureGroupLayers == {"main_manager", "main_coach", "main_manager_coach"}

RequiredLayers == MainLayers \cup SignatureGroupLayers

\* The mentors a roster may name, and those of them the template has a
\* signature layer of.
MentorNames == {"X", "W", "Y", "Z"}

SignatureLayers == {"X", "W"}

AllLayers == RequiredLayers \cup SignatureLayers

TextLayers ==
    {"main_name", "main_team", "main_mates", "text_team", "text_mates",
     "main_award", "text_roster", "main_manager", "main_coach"}

\* pdb.gimp_image_width(image) / 2 of line 39, an integer division.
mid == 41 \div 2

\* text.width of lines 114 and 120: the rendered width grows with the text.
Width(txt, layer) == 3 * Len(txt[layer])

----------------------------------------------------------------------------
(* get_teammates (lines 122-147).                                          *)

\* ps.remove(player) of line 139: the first occurrence goes.
Remove(ps, player) ==
    LET i == CHOOSE k \in 1..Len(ps) :
                 /\ ps[k] = player
                 /\ \A j \in 1..(k - 1) : ps[j] # player
    IN  SubSeq(ps, 1, i - 1) \o SubSeq(ps, i + 1, Len(ps))

\* The list of lines 137-139, before its last entry is popped.
Remaining(players, player) ==
    IF player # None THEN Remove(players, player) ELSE players

\* ps[-1] of line 140 raises IndexError on an empty list.
get_teammates_raises(players, player) == Len(Remaining(players, player)) = 0

\* The loop of lines 143-145: val += p + ", ".
RECURSIVE JoinWithComma(_)
JoinWithComma(ps) ==
    IF Len(ps) = 0 THEN <<>>
    ELSE Head(ps) \o <<",", " ">> \o JoinWithComma(Tail(ps))

\* val[:-2] of line 147: all but the last two characters, "" of "".
DropLastTwo(val) == SubSeq(val, 1, Len(val) - 2)

get_teammates(players, player) ==
    LET all == Remaining(players, player)
        last == all[Len(all)]
        ps == SubSeq(all, 1, Len(all) - 1)
        val == JoinWithComma(ps)
    IN  DropLastTwo(val) \o <<" ", "a", "n", "d", " ">> \o last \o <<".">>

----------------------------------------------------------------------------
(* center_text (lines 102-120).                                            *)

RECURSIVE SumWidths(_, _)
SumWidths(txt, texts) ==
    IF Len(texts) = 0 THEN 0
    ELSE Width(txt, Head(texts)) + SumWidths(txt, Tail(texts))

\* The loop of lines 117-120, from offset x_text on.
RECURSIVE Place(_, _, _, _)
Place(off, txt, texts, x_text) ==
    IF Len(texts) = 0 THEN off
    ELSE Place([off EXCEPT ![Head(texts)] = x_text], txt, Tail(texts),
               x_text + Width(txt, Head(texts)))

\* The offsets center_text leaves: sum / 2 is an integer division.
center_text(off, txt, texts) ==
    Place(off, txt, texts, mid - (SumWidths(txt, texts) \div 2))

----------------------------------------------------------------------------
(* Team and get_teams (lines 212-272).                                     *)

\* The Team of lines 263-268, of a row whose coach cell split into coaches
\* and whose manager cell split into managers.
Team(name, players, coaches, managers) ==
    [name |-> name,
     players |-> players,
     mentors |-> coaches \o managers,
     shared_responsibility |-> FALSE,
     mult_coaches |-> Len(coaches) > 1,
     mult_managers |-> Len(managers) > 1]

----------------------------------------------------------------------------
(* set_signatures_active (lines 152-186).                                  *)

\* The mentors the loop of lines 178-186 looks up: line 179 skips "".
LookedUp(team) == {team.mentors[k] : k \in 1..Len(team.mentors)} \ {""}

\* As SignaturesVisible, with line 184 showing the layer whatever active is.
SignaturesVisible_IgnoresActive(vis, lay, team, active) ==
    [l \in DOMAIN vis |->
        IF l \in LookedUp(team) \cap lay THEN TRUE
        ELSE IF l \in {"main_manager", "main_coach"}
             THEN ~team.shared_responsibility
        ELSE IF l = "main_manager_coach" THEN team.shared_responsibility
        ELSE vis[l]]

\* Lines 171-173 and 184: the visibilities the call leaves.
SignaturesVisible(vis, lay, team, active) ==
    [l \in DOMAIN vis |->
        IF l \in LookedUp(team) \cap lay THEN active
        ELSE IF l \in {"main_manager", "main_coach"}
             THEN ~team.shared_responsibility
        ELSE IF l = "main_manager_coach" THEN team.shared_responsibility
        ELSE vis[l]]

\* Lines 174-176: the labels of the two signature groups.
SignaturesText(txt, team) ==
    IF team.shared_responsibility THEN txt
    ELSE [txt EXCEPT
            !["main_coach"] = IF ~team.mult_coaches THEN Str_Coach
                              ELSE Str_Coaches,
            !["main_manager"] = IF ~team.mult_managers THEN Str_Manager
                                ELSE Str_Managers]

\* The text layers lines 175-176 set.
SignaturesTextSet(team) ==
    IF team.shared_responsibility THEN {} ELSE {"main_coach", "main_manager"}

\* Lines 185-186: what the call appends to missing_signs, in mentor order.
SignaturesMissing(lay, team, active) ==
    IF active
    THEN SelectSeq(team.mentors, LAMBDA m : m # "" /\ m \notin lay)
    ELSE <<>>

\* The host calls of one call of set_signatures_active for team i.
SignaturesCalls(lay, i, team, active) ==
    {<<i, "lookup", l>> : l \in SignatureGroupLayers \cup LookedUp(team)}
    \cup {<<i, "setVisible", l>> :
            l \in SignatureGroupLayers \cup (LookedUp(team) \cap lay)}
    \cup {<<i, "setText", l>> : l \in SignaturesTextSet(team)}
    \cup {<<i, "missing", SignaturesMissing(lay, team, active)[k]>> :
            k \in 1..Len(SignaturesMissing(lay, team, active))}

----------------------------------------------------------------------------
(* The inputs of a run.                                                    *)

BaseName == <<"H">>

\* Two names that differ, and that line 201 maps to the same file name.
TeamNames == {BaseName, <<"H", ".">>}

\* The first n players of a bench A, B, C, A, B, C, ...
Bench(n) == [k \in 1..n |-> <<<<"A">>, <<"B">>, <<"C">>>>[((k - 1) % 3) + 1]]

\* Lines 257-258: 0 to MaxPlayers non-empty player cells.
PlayerLists == {Bench(n) : n \in 0..MaxPlayers}

BasePlayers == Bench(2)

\* Lines 260-261: the coach cell and the manager cell of a row, split on
\* " & ".  An empty cell splits into <<"">>.
MentorCells ==
    {<< <<"X">>, <<"Y">> >>,
     << <<"Y">>, <<"Y">> >>,
     << <<"">>, <<"">> >>,
     << <<"X", "W">>, <<"Z", "Y">> >>,
     << <<"W">>, <<"">> >>}

BaseMentors == << <<"X">>, <<"Y">> >>

\* The rows of a roster: the base row with another name, with another list
\* of players, or with other mentors.
Rows ==
    {Team(n, BasePlayers, BaseMentors[1], BaseMentors[2]) : n \in TeamNames}
    \cup {Team(BaseName, p, BaseMentors[1], BaseMentors[2]) : p \in PlayerLists}
    \cup {Team(BaseName, BasePlayers, cm[1], cm[2]) : cm \in MentorCells}

Rosters == UNION {[1..n -> Rows] : n \in 0..MaxTeams}

Folders == {"output_folder", "team_output_folder"}

\* The template as its author saved it: every layer visible but the mentor
\* signatures, the computed texts empty.
InitialText ==
    [l \in TextLayers |->
        CASE l = "text_team" -> <<"o", "f", " ">>
          [] l = "text_mates" -> <<"w", "i", "t", "h", " ">>
          [] l = "text_roster" -> <<"R", "o", "s", "t", "e", "r">>
          [] OTHER -> <<>>]

InitRun ==
    /\ pc = "L30"
    /\ ti = 1
    /\ pi = 1
    /\ visible = [l \in AllLayers |-> l \in RequiredLayers]
    /\ text = InitialText
    /\ xoff = [l \in TextLayers |-> 0]
    /\ dirty = {}
    /\ missing_signs = <<>>
    /\ dups = {}
    /\ files = {}
    /\ exports = <<>>
    /\ messages = <<>>
    /\ calls = {}
    /\ error = "none"

InitInputs ==
    /\ teams \in Rosters
    /\ restrictions \in {<<>>, BaseName}
    /\ do_export \in BOOLEAN
    /\ unwritable \in SUBSET Folders
    /\ do_export \/ unwritable = {}

\* A run on a template that has every layer the plug-in names.
Init ==
    /\ InitInputs
    /\ template = AllLayers
    /\ InitRun

\* A run on a template that may lack one of the layers the plug-in names.
InitTemplate ==
    /\ InitInputs
    /\ \E l \in RequiredLayers \cup {"none"} : template = AllLayers \ {l}
    /\ InitRun

----------------------------------------------------------------------------
(* The statements of save_grad_certificates (lines 6-100).                 *)

\* t of the loop of line 44.
t == teams[ti]

\* player of the loop of line 85.
player == t.players[pi]

\* pdb.gimp_text_layer_set_text(layer, s), then on to statement next.
SetText(layer, s, next) ==
    /\ layer \in template
    /\ text' = [text EXCEPT ![layer] = s]
    /\ dirty' = dirty \cup {layer}
    /\ calls' = calls \cup {<<ti, "setText", layer>>}
    /\ pc' = next
    /\ UNCHANGED <<inputs, ti, pi, visible, xoff, missing_signs, dups, files,
                   exports, messages, error>>

\* The pdb.gimp_item_set_visible calls of a statement, as <<layer, value>>,
\* in the order of the source.
Toggles(p) ==
    CASE p \in {"L50", "L54", "L92"} ->
            << <<"main_manager", ~t.shared_responsibility>>,
               <<"main_coach", ~t.shared_responsibility>>,
               <<"main_manager_coach", t.shared_responsibility>> >>
      [] p = "L64" ->
            << <<"text_mates", FALSE>>, <<"text_team", FALSE>>,
               <<"main_team", FALSE>>, <<"text_roster", TRUE>> >>
      [] p = "L80" ->
            << <<"text_mates", TRUE>>, <<"text_team", TRUE>>,
               <<"main_team", TRUE>>, <<"text_roster", FALSE>> >>
      [] OTHER -> <<>>

RECURSIVE ApplyToggles(_, _)
ApplyToggles(vis, toggles) ==
    IF Len(toggles) = 0 THEN vis
    ELSE ApplyToggles([vis EXCEPT ![Head(toggles)[1]] = Head(toggles)[2]],
                      Tail(toggles))

\* A block of pdb.gimp_item_set_visible calls, then on to statement next.
SetVisible(toggles, next) ==
    /\ \A k \in 1..Len(toggles) : toggles[k][1] \in template
    /\ visible' = ApplyToggles(visible, toggles)
    /\ calls' = calls \cup
                {<<ti, "setVisible", toggles[k][1]>> : k \in 1..Len(toggles)}
    /\ pc' = next
    /\ UNCHANGED <<inputs, ti, text, xoff, dirty, missing_signs, dups, files,
                   exports, messages, error>>

\* center_text(mid, texts), then on to statement next.
Center(texts, next) ==
    /\ \A k \in 1..Len(texts) : texts[k] \in template
    /\ xoff' = center_text(xoff, text, texts)
    /\ dirty' = dirty \ {texts[k] : k \in 1..Len(texts)}
    /\ calls' = calls \cup {<<ti, "center", texts[k]>> : k \in 1..Len(texts)}
    /\ pc' = next
    /\ UNCHANGED <<inputs, ti, pi, visible, text, missing_signs, dups, files,
                   exports, messages, error>>

\* The image line 207 hands to file_png_save.
SavedImage == "image"

\* The duplicates that exist when export returns: line 208 deletes new_image
\* when file_png_save returned, and the handler of line 209 does not.
DuplicatesAfter(d, new_image, saved) ==
    IF saved THEN d ELSE d \cup {new_image}

\* As AfterExport, without the handler of lines 209-210.
AfterExport_Uncaught(saved, next) == IF saved THEN next ELSE "crashed"

\* The statement that runs after export: the handler of lines 209-210
\* catches what lines 205-208 raise, and export returns.
AfterExport(saved, next) == next

\* export(image, outputFolder, name) (lines 189-210), then on to next.
Export(outputFolder, name, next) ==
    LET file == Sanitize(name)
        new_image == Len(exports) + 1
        saved == outputFolder \notin unwritable
    IN  /\ dups' = DuplicatesAfter(dups, new_image, saved)
        /\ files' = IF saved THEN files \cup {<<outputFolder, file>>}
                    ELSE files
        /\ messages' = IF saved THEN messages
                       ELSE Append(messages, <<"Unexpected error", file>>)
        /\ exports' = Append(exports,
                             [team |-> ti, folder |-> outputFolder,
                              name |-> file, image |-> SavedImage,
                              new_image |-> new_image, saved |-> saved])
        /\ calls' = calls \cup {<<ti, "export", outputFolder>>}
        /\ pc' = AfterExport(saved, next)
        /\ UNCHANGED <<inputs, ti, visible, text, xoff, dirty, missing_signs,
                       error>>

\* set_signatures_active(image, t, active), then on to statement next.
set_signatures_active(active, next) ==
    /\ SignatureGroupLayers \subseteq template
    /\ visible' = SignaturesVisible(visible, template, t, active)
    /\ text' = SignaturesText(text, t)
    /\ dirty' = dirty \cup SignaturesTextSet(t)
    /\ missing_signs' = missing_signs \o SignaturesMissing(template, t, active)
    /\ calls' = calls \cup SignaturesCalls(template, ti, t, active)
    /\ pc' = next
    /\ UNCHANGED <<inputs, pi, xoff, dups, files, exports, messages, error>>

\* Lines 30-39: the lookups of the main layers.  None of them raises, so the
\* handler of lines 40-42 does not run.
Bind ==
    /\ pc = "L30"
    /\ calls' = calls \cup {<<0, "lookup", l>> : l \in MainLayers}
    /\ pc' = "L44"
    /\ UNCHANGED <<inputs, ti, pi, visible, text, xoff, dirty, missing_signs,
                   dups, files, exports, messages, error>>

\* Line 44, the roster is exhausted.
EndOfRoster ==
    /\ pc = "L44"
    /\ ti > Len(teams)
    /\ pc' = "L95"
    /\ UNCHANGED <<inputs, ti, pi, visible, text, xoff, dirty, missing_signs,
                   dups, files, exports, messages, calls, error>>

\* As Restricted, with the comparison of line 46 turned round.
Restricted_Inverted == restrictions # <<>> /\ restrictions = t.name

\* Lines 46-47.
Restricted == restrictions # <<>> /\ restrictions # t.name

SkipTeam ==
    /\ pc = "L44"
    /\ ti <= Len(teams)
    /\ Restricted
    /\ ti' = ti + 1
    /\ UNCHANGED <<inputs, pc, pi, visible, text, xoff, dirty, missing_signs,
                   dups, files, exports, messages, calls, error>>

EnterTeam ==
    /\ pc = "L44"
    /\ ti <= Len(teams)
    /\ ~Restricted
    /\ pc' = "L50"
    /\ UNCHANGED <<inputs, ti, pi, visible, text, xoff, dirty, missing_signs,
                   dups, files, exports, messages, calls, error>>

\* As ActivateSignatures, without the test of line 53.
ActivateSignatures_IgnoresFlag ==
    /\ pc = "L50"
    /\ set_signatures_active(TRUE, "L58")
    /\ UNCHANGED ti

\* Lines 50 and 53.
ActivateSignatures ==
    /\ pc = "L50"
    /\ set_signatures_active(TRUE, IF do_export THEN "L58" ELSE "L54")
    /\ UNCHANGED ti

\* Lines 54-55.
DeactivateOnly ==
    /\ pc = "L54"
    /\ set_signatures_active(FALSE, "L44")
    /\ ti' = ti + 1

\* Line 58.
SetTeamText ==
    /\ pc = "L58"
    /\ SetText("main_team", t.name, "L60")

\* Line 60.
CenterTeam ==
    /\ pc = "L60"
    /\ Center(<<"text_team", "main_team">>, "L63")

\* Line 63.
SetAwardTeam ==
    /\ pc = "L63"
    /\ SetText("main_award", Str_AwardTeam, "L64")

\* Lines 64-67.
ShowTeamFields ==
    /\ pc = "L64"
    /\ SetVisible(Toggles("L64"), "L70")
    /\ UNCHANGED pi

\* Line 70.
SetTeamAsName ==
    /\ pc = "L70"
    /\ SetText("main_name", t.name, "L71")

\* Line 71.
SetRoster ==
    /\ pc = "L71"
    /\ ~get_teammates_raises(t.players, None)
    /\ SetText("main_mates", get_teammates(t.players, None), "L73")

\* Line 73.
CenterRoster ==
    /\ pc = "L73"
    /\ Center(<<"main_mates">>, "L76")

\* Line 76.
ExportTeam ==
    /\ pc = "L76"
    /\ Export("team_output_folder", t.name, "L79")
    /\ UNCHANGED pi

\* Line 79.
SetAwardPlayer ==
    /\ pc = "L79"
    /\ SetText("main_award", Str_AwardPlayer, "L80")

\* Lines 80-83, and the start of the loop of line 85.
ShowPlayerFields ==
    /\ pc = "L80"
    /\ SetVisible(Toggles("L80"), "L85")
    /\ pi' = 1

\* Line 85.
NextPlayer ==
    /\ pc = "L85"
    /\ pc' = IF pi <= Len(t.players) THEN "L86" ELSE "L92"
    /\ UNCHANGED <<inputs, ti, pi, visible, text, xoff, dirty, missing_signs,
                   dups, files, exports, messages, calls, error>>

\* Line 86.
SetPlayerName ==
    /\ pc = "L86"
    /\ SetText("main_name", player, "L87")

\* Line 87.
SetTeammates ==
    /\ pc = "L87"
    /\ ~get_teammates_raises(t.players, player)
    /\ SetText("main_mates", get_teammates(t.players, player), "L88")

\* As CenterTeammates, centering what line 73 centers.
CenterTeammates_OnlyMates ==
    /\ pc = "L88"
    /\ Center(<<"main_mates">>, "L89")

\* Line 88.
CenterTeammates ==
    /\ pc = "L88"
    /\ Center(<<"text_mates", "main_mates">>, "L89")

\* As ExportPlayer, into the folder of line 76.
ExportPlayer_TeamFolder ==
    /\ pc = "L89"
    /\ Export("team_output_folder", t.name \o <<"_">> \o player, "L85")
    /\ pi' = pi + 1

\* Line 89.
ExportPlayer ==
    /\ pc = "L89"
    /\ Export("output_folder", t.name \o <<"_">> \o player, "L85")
    /\ pi' = pi + 1

\* Line 92.
DeactivateSignatures ==
    /\ pc = "L92"
    /\ set_signatures_active(FALSE, "L44")
    /\ ti' = ti + 1

\* Lines 95-100.
Report ==
    /\ pc = "L95"
    /\ messages' = Append(messages, <<"Missing Signatures from", missing_signs>>)
    /\ pc' = "done"
    /\ UNCHANGED <<inputs, ti, pi, visible, text, xoff, dirty, missing_signs,
                   dups, files, exports, calls, error>>

\* Lines 71 and 87: get_teammates raises IndexError at line 140, and nothing
\* catches it.
TeammatesIndexError ==
    /\ \/ pc = "L71" /\ get_teammates_raises(t.players, None)
       \/ pc = "L87" /\ get_teammates_raises(t.players, player)
    /\ pc' = "crashed"
    /\ error' = "IndexError"
    /\ UNCHANGED <<inputs, ti, pi, visible, text, xoff, dirty, missing_signs,
                   dups, files, exports, messages, calls>>

Next ==
    \/ Bind
    \/ EndOfRoster
    \/ SkipTeam
    \/ EnterTeam
    \/ ActivateSignatures
    \/ DeactivateOnly
    \/ SetTeamText
    \/ CenterTeam
    \/ SetAwardTeam
    \/ ShowTeamFields
    \/ SetTeamAsName
    \/ SetRoster
    \/ CenterRoster
    \/ ExportTeam
    \/ SetAwardPlayer
    \/ ShowPlayerFields
    \/ NextPlayer
    \/ SetPlayerName
    \/ SetTeammates
    \/ CenterTeammates
    \/ ExportPlayer
    \/ DeactivateSignatures
    \/ Report
    \/ TeammatesIndexError

Spec == Init /\ [][Next]_vars

----------------------------------------------------------------------------
(* A template that lacks a layer the plug-in names.                        *)

\* The layers a statement hands to the host, in the order of its calls.
\* The lookups of lines 31-37 and 165-167 left None for a missing one.
StatementLayers(p) ==
    CASE p \in {"L50", "L54", "L92", "L64", "L80"} ->
            [k \in 1..Len(Toggles(p)) |-> Toggles(p)[k][1]]
      [] p = "L58" -> <<"main_team">>
      [] p = "L60" -> <<"text_team", "main_team">>
      [] p \in {"L63", "L79"} -> <<"main_award">>
      [] p \in {"L70", "L86"} -> <<"main_name">>
      [] p = "L71" /\ ~get_teammates_raises(t.players, None) -> <<"main_mates">>
      [] p = "L87" /\ ~get_teammates_raises(t.players, player) -> <<"main_mates">>
      [] p = "L73" -> <<"main_mates">>
      [] p = "L88" -> <<"text_mates", "main_mates">>
      [] OTHER -> <<>>

\* The position of the first missing layer among them, 0 when none is.
FirstMissing(p) ==
    LET ls == StatementLayers(p)
        miss == {k \in 1..Len(ls) : ls[k] \notin template}
    IN  IF miss = {} THEN 0
        ELSE CHOOSE k \in miss : \A j \in miss : k <= j

\* A statement hands None to the host: pdb raises RuntimeError (text.width
\* of line 114 raises AttributeError), the handlers of lines 40 and 168 are
\* long left, and the run ends there.  The calls of the statement that came
\* before the failing one have happened.
UseMissingLayer ==
    /\ pc \notin {"done", "crashed"}
    /\ ti <= Len(teams)
    /\ FirstMissing(pc) > 0
    /\ visible' = ApplyToggles(visible,
                               SubSeq(Toggles(pc), 1, FirstMissing(pc) - 1))
    /\ calls' = calls \cup
                {<<ti, "setVisible", Toggles(pc)[k][1]>> :
                    k \in 1..(IF Len(Toggles(pc)) = 0 THEN 0
                              ELSE FirstMissing(pc) - 1)}
    /\ pc' = "crashed"
    /\ error' = IF pc \in {"L60", "L73", "L88"} THEN "AttributeError"
                ELSE "RuntimeError"
    /\ UNCHANGED <<inputs, ti, pi, text, xoff, dirty, missing_signs, dups,
                   files, exports, messages>>

NextTemplate == Next \/ UseMissingLayer

SpecTemplate == InitTemplate /\ [][NextTemplate]_vars

----------------------------------------------------------------------------
(* What the properties below speak of.                                     *)

\* Row j of the roster passes the restriction.
Selected(j) == restrictions = <<>> \/ restrictions = teams[j].name

\* The signatures of row j have been activated.
Activated(j) ==
    /\ Selected(j)
    /\ \/ j < ti
       \/ j = ti /\ pc \notin {"L30", "L44", "L50"}

\* The mentors of a row that the template has no layer of.
Unsigned(team) == LookedUp(team) \ template

Count(seq, x) == Cardinality({k \in 1..Len(seq) : seq[k] = x})

\* The mentor signature layers that are visible.
VisibleSignatures == {l \in template \ RequiredLayers : visible[l]}

\* The export requests a complete pass over row j makes.
RowRequests(j) ==
    << <<"team_output_folder", Sanitize(teams[j].name)>> >>
    \o [k \in 1..Len(teams[j].players) |->
          <<"output_folder",
            Sanitize(teams[j].name \o <<"_">> \o teams[j].players[k])>>]

\* The export requests a complete run makes, from row j on.
RECURSIVE RunRequests(_)
RunRequests(j) ==
    IF j > Len(teams) THEN <<>>
    ELSE (IF Selected(j) THEN RowRequests(j) ELSE <<>>) \o RunRequests(j + 1)

\* The export requests made so far.
Issued == [k \in 1..Len(exports) |-> <<exports[k].folder, exports[k].name>>]

RECURSIVE PlayersFrom(_)
PlayersFrom(j) ==
    IF j > Len(teams) THEN 0
    ELSE Len(teams[j].players) + PlayersFrom(j + 1)

Completed == pc = "done"

----------------------------------------------------------------------------
(* C1: in a run with do_export false, export is never called and no text   *)
(* is set but the two signature labels, and yet every non-empty mentor of  *)
(* every row that passes the restriction is looked up in the template and  *)
(* every one without a layer is in missing_signs.                          *)
C1_DryRun ==
    ~do_export =>
        /\ exports = <<>>
        /\ files = {}
        /\ \A c \in calls :
              /\ c[2] # "export"
              /\ c[2] = "setText" => c[3] \in {"main_coach", "main_manager"}
        /\ \A j \in 1..Len(teams) : Activated(j) =>
              \A m \in LookedUp(teams[j]) :
                  /\ <<j, "lookup", m>> \in calls
                  /\ m \notin template => Count(missing_signs, m) > 0

\* A dry run has ended that looked up a mentor without a layer.
C1_Witness ==
    /\ ~do_export
    /\ Completed
    /\ \E j \in 1..Len(teams) : Activated(j) /\ Unsigned(teams[j]) # {}

----------------------------------------------------------------------------
(* C2: in a run with a restriction, a row whose name differs from the      *)
(* restriction is skipped whole: no lookup, no visibility or text change,  *)
(* no centering, no record in missing_signs and no export is made for it.  *)
C2_Restriction ==
    restrictions # <<>> =>
        /\ \A c \in calls :
              c[1] # 0 => teams[c[1]].name = restrictions
        /\ \A k \in 1..Len(exports) :
              teams[exports[k].team].name = restrictions

\* A restricted run has ended that skipped one row and exported another.
C2_Witness ==
    /\ restrictions # <<>>
    /\ Completed
    /\ \E j \in 1..Len(teams) : ~Selected(j)
    /\ \E k \in 1..Len(exports) : Selected(exports[k].team)

----------------------------------------------------------------------------
(* C3, as claimed: a complete run with do_export true, no restriction and  *)
(* no failed export, over a roster of distinct team names, leaves as many  *)
(* files as the roster has teams and players.                              *)
C3_OneFilePerCertificate ==
    (/\ Completed
     /\ do_export
     /\ restrictions = <<>>
     /\ unwritable = {}
     /\ \A i, j \in 1..Len(teams) : teams[i].name = teams[j].name => i = j)
    => Cardinality(files) = Len(teams) + PlayersFrom(1)

(* C3, amended: such a run makes one export request per team, under the    *)
(* sanitized team name into the team folder, followed by one per player of *)
(* the team, under the sanitized "{team}_{player}" into the player folder, *)
(* in roster order; the files it leaves are the files so named, which are  *)
(* as many as the teams and players when these names are all different.    *)
C3_OneRequestPerCertificate ==
    (/\ Completed
     /\ do_export
     /\ restrictions = <<>>
     /\ unwritable = {})
    => /\ Issued = RunRequests(1)
       /\ Len(exports) = Len(teams) + PlayersFrom(1)
       /\ files = {Issued[k] : k \in 1..Len(Issued)}
       /\ (\A i, j \in 1..Len(Issued) : Issued[i] = Issued[j] => i = j)
              => Cardinality(files) = Len(teams) + PlayersFrom(1)

\* Such a run has ended over two teams whose names, sanitized, are one.
C3_Witness ==
    /\ Completed
    /\ do_export
    /\ restrictions = <<>>
    /\ unwritable = {}
    /\ Len(teams) = 2
    /\ teams[1].name # teams[2].name
    /\ Cardinality(files) < Len(exports)

----------------------------------------------------------------------------
(* C4: the text get_teammates returns lists the players other than the     *)
(* excluded one in roster order, ", " between all but the last two, " and "*)
(* before the last, and ends with a period; one remaining player gives     *)
(* "{name}." without "and".                                                *)

\* The players other than exclude.
Others(players, exclude) == SelectSeq(players, LAMBDA q : q # exclude)

RECURSIVE Sentence(_)
Sentence(ps) ==
    IF Len(ps) = 1 THEN Head(ps) \o <<".">>
    ELSE IF Len(ps) = 2
         THEN ps[1] \o <<" ", "a", "n", "d", " ">> \o ps[2] \o <<".">>
    ELSE Head(ps) \o <<",", " ">> \o Sentence(Tail(ps))

C4_FormatTeammates ==
    /\ pc = "L73" => text["main_mates"] = Sentence(Others(t.players, None))
    /\ pc = "L88" => text["main_mates"] = Sentence(Others(t.players, player))

----------------------------------------------------------------------------
(* C5: an activation records each distinct mentor without a layer once in  *)
(* missing_signs, not once per occurrence in the mentor list, and the      *)
(* deactivation records nothing; the list is reported once, at the end.    *)
C5_OncePerActivation ==
    /\ \A m \in MentorNames :
          Count(missing_signs, m) =
              Cardinality({j \in 1..Len(teams) :
                              Activated(j) /\ m \in Unsigned(teams[j])})
    /\ Count([k \in 1..Len(messages) |-> messages[k][1]],
             "Missing Signatures from") = (IF Completed THEN 1 ELSE 0)

----------------------------------------------------------------------------
(* C6: when export is called, the visibilities of the certificate have     *)
(* been set, no centered text block has had its text set since it was last *)
(* centered, the blocks whose text depends on the row have had it set for  *)
(* this row, and every centered block lies where center_text puts it for   *)
(* the texts that are exported.                                            *)
CenteredBlocks == {"text_team", "main_team", "text_mates", "main_mates"}

\* The blocks of texts lie touching, centered on mid as a whole.
Centered(texts) ==
    /\ xoff[texts[1]] = mid - (SumWidths(text, texts) \div 2)
    /\ \A k \in 2..Len(texts) :
          xoff[texts[k]] = xoff[texts[k - 1]] + Width(text, texts[k - 1])

C6_SetCenterExport ==
    pc \in {"L76", "L89"} =>
        /\ dirty \cap CenteredBlocks = {}
        /\ \A l \in {"main_team", "main_mates", "main_name"} :
              /\ <<ti, "setText", l>> \in calls
              /\ l # "main_name" => <<ti, "center", l>> \in calls
        /\ Centered(<<"text_team", "main_team">>)
        /\ text["main_team"] = t.name
        /\ pc = "L76" =>
              /\ Centered(<<"main_mates">>)
              /\ ~visible["text_mates"] /\ ~visible["text_team"]
              /\ ~visible["main_team"] /\ visible["text_roster"]
              /\ text["main_award"] = Str_AwardTeam
              /\ text["main_name"] = t.name
        /\ pc = "L89" =>
              /\ Centered(<<"text_mates", "main_mates">>)
              /\ visible["text_mates"] /\ visible["text_team"]
              /\ visible["main_team"] /\ ~visible["text_roster"]
              /\ text["main_award"] = Str_AwardPlayer
              /\ text["main_name"] = player

\* The certificate of the second player of the second row is about to be
\* exported, after the texts of another row were centered.
C6_Witness ==
    /\ pc = "L89"
    /\ ti = 2
    /\ pi = 2
    /\ Len(teams[1].players) # Len(t.players)
    /\ Len(exports) > 3

----------------------------------------------------------------------------
(* C7: a failed export is caught and reported, and ends nothing: no run    *)
(* ends on the exception of an export, every failed export has its         *)
(* message, and a run that completes has requested every export of every   *)
(* selected row whatever failed, has hidden every mentor signature again,  *)
(* and has reported missing_signs last.                                    *)
C7_ExportFailureContained ==
    /\ pc = "crashed" => error = "IndexError"
    /\ \A k \in 1..Len(exports) :
          ~exports[k].saved =>
              Count(messages, <<"Unexpected error", exports[k].name>>) > 0
    /\ Cardinality({k \in 1..Len(exports) : ~exports[k].saved})
           = Count([k \in 1..Len(messages) |-> messages[k][1]],
                   "Unexpected error")
    /\ Completed =>
          /\ do_export => Issued = RunRequests(1)
          /\ VisibleSignatures = {}
          /\ messages[Len(messages)] =
                 <<"Missing Signatures from", missing_signs>>

\* A run has ended in which an export failed and a later one was written.
C7_Witness ==
    /\ Completed
    /\ \E k \in 1..Len(exports) :
          /\ ~exports[k].saved
          /\ \E n \in (k + 1)..Len(exports) : exports[n].saved

----------------------------------------------------------------------------
(* C8: every export hands the duplicate, not the image of the editing      *)
(* session, to file_png_save, and no duplicate exists once export has      *)
(* returned, whether the file was written or not.                          *)
C8_ExportsADuplicate ==
    /\ \A k \in 1..Len(exports) : exports[k].image # "image"
    /\ dups = {}

----------------------------------------------------------------------------
(* C9: on a template that lacks a layer the plug-in names, no call is      *)
(* handed the missing layer and the run does not end in an uncaught        *)
(* exception.                                                              *)
C9_InvalidTemplate ==
    ~(RequiredLayers \subseteq template) =>
        error \notin {"RuntimeError", "AttributeError"}

----------------------------------------------------------------------------
(* C10: with every mentor signature hidden at the start, at each call of   *)
(* export the visible mentor signatures are those of the mentors of the    *)
(* current row that have a layer, and none is visible when the run has     *)
(* completed, with do_export true or false.                                *)
C10_SignaturesOfCurrentTeam ==
    /\ pc \in {"L76", "L89"} => VisibleSignatures = LookedUp(t) \cap template
    /\ Completed => VisibleSignatures = {}

\* A player certificate of the second row is about to be exported, a
\* signature is visible, and the first row had a signature this row lacks.
C10_Witness ==
    /\ pc = "L89"
    /\ ti = 2
    /\ VisibleSignatures # {}
    /\ (LookedUp(teams[1]) \cap template) \ LookedUp(t) # {}

====
